---- MODULE Spec2Model ----
(***************************************************************************)
(* Model of samples_validator/utils.py: the two nested-dict structures     *)
(* CodeSamplesTree and TestExecutionResultMap.                             *)
(*                                                                         *)
(* A Python str is a sequence of tokens: the separator "/" or a maximal    *)
(* run of other characters (a word, a non-empty TLA+ string).  A Python    *)
(* dict is a record [kind, items] whose items keep insertion order; kind   *)
(* tells a plain dict from a defaultdict(dict).  Any other Python object   *)
(* stored in a dict is [kind |-> "obj", obj |-> ...]; None is              *)
(* [kind |-> "None"].                                                      *)
(***************************************************************************)
EXTENDS Integers, Sequences, FiniteSets, TLC

VARIABLES
    tree,            \* CodeSamplesTree._tree
    map,             \* TestExecutionResultMap._map
    sorted_samples,  \* value returned by list_sorted_samples() since the last put
    listed,          \* TRUE iff list_sorted_samples() was called since the last put
    log,             \* every sample handed to CodeSamplesTree.put, in call order
    rlog,            \* every result handed to TestExecutionResultMap.put
    lookup,          \* last get_parent_result / get_parent_body call and its value
    raised,          \* TRUE iff the last operation raised an exception
    corpus,          \* which set of samples the documentation run supplies
    budget,          \* number of calls the run may still make
    pc,              \* position of the orchestrator's loop
    cursor           \* index in sorted_samples of the sample being processed

vars == <<tree, map, sorted_samples, listed, log, rlog, lookup, raised,
          corpus, budget, pc, cursor>>

----------------------------------------------------------------------------
(* Bounds of the model *)

MaxPuts == 3
ScenarioPuts == 5

----------------------------------------------------------------------------
(* HttpMethod members and the string key of a node's payload map *)

post == "POST"
get == "GET"
put == "PUT"
delete == "DELETE"
patch == "PATCH"

MethodsKey == "methods"

Sep == "/"

----------------------------------------------------------------------------
(* str.split('/') and '/'.join(...) *)

RECURSIVE SplitFrom(_, _, _)
SplitFrom(s, i, cur) ==
    IF i > Len(s) THEN <<cur>>
    ELSE IF s[i] = Sep THEN <<cur>> \o SplitFrom(s, i + 1, "")
    ELSE SplitFrom(s, i + 1, cur \o s[i])

Split(s) == SplitFrom(s, 1, "")

Chunk(w) == IF w = "" THEN <<>> ELSE <<w>>

RECURSIVE Join(_)
Join(parts) ==
    IF parts = <<>> THEN <<>>
    ELSE IF Len(parts) = 1 THEN Chunk(parts[1])
    ELSE Chunk(parts[1]) \o <<Sep>> \o Join(Tail(parts))

----------------------------------------------------------------------------
(* Python dict primitives *)

None == [kind |-> "None"]
Obj(x) == [kind |-> "obj", obj |-> x]
EmptyDict == [kind |-> "dict", items |-> <<>>]
NewDefaultDict == [kind |-> "defaultdict", items |-> <<>>]

IsDict(v) == v.kind \in {"dict", "defaultdict"}

HasKey(d, k) == \E i \in 1..Len(d.items) : d.items[i].k = k

KeyIndex(d, k) == CHOOSE i \in 1..Len(d.items) : d.items[i].k = k

\* d[k] for a key that is present
GetItem(d, k) == d.items[KeyIndex(d, k)].v

\* d.get(k, default)
DictGet(d, k, default) == IF HasKey(d, k) THEN GetItem(d, k) ELSE default

\* an assignment that moves an existing key to the end, as a delete-and-reinsert does
SetItem_MoveToEnd(d, k, v) ==
    [d EXCEPT !.items = Append(SelectSeq(@, LAMBDA e : e.k # k), [k |-> k, v |-> v])]

\* d[k] = v: an existing key keeps its place, a new key goes last
SetItem(d, k, v) ==
    IF HasKey(d, k)
    THEN [d EXCEPT !.items[KeyIndex(d, k)] = [k |-> k, v |-> v]]
    ELSE [d EXCEPT !.items = Append(@, [k |-> k, v |-> v])]

\* bool(v)
Truthy(v) == IF IsDict(v) THEN Len(v.items) > 0 ELSE v.kind = "obj"

\* keys of d in iteration order
KeysOf(d) == [i \in 1..Len(d.items) |-> d.items[i].k]

----------------------------------------------------------------------------
(* CodeSamplesTree._put_code_sample.  The dicts are mutated in place, so   *)
(* what was written before an exception stays written: the value carries   *)
(* the dict as left behind together with the raised flag.                  *)

RECURSIVE PutCodeSample(_, _, _)
PutCodeSample(current_dict, path, sample) ==
    LET path_parts == Split(path)
        current_path == path_parts[1]
        further_path == Join(Tail(path_parts))
        d1 == IF ~Truthy(DictGet(current_dict, current_path, None))
              THEN SetItem(current_dict, current_path, NewDefaultDict)
              ELSE current_dict
        node == GetItem(d1, current_path)
    IN  IF further_path = <<>>
        THEN IF HasKey(node, MethodsKey)
             THEN LET ms == GetItem(node, MethodsKey)
                  IN  IF IsDict(ms)
                      THEN [raised |-> FALSE,
                            d |-> SetItem(d1, current_path,
                                    SetItem(node, MethodsKey,
                                      SetItem(ms, sample.http_method, Obj(sample))))]
                      ELSE [raised |-> TRUE, d |-> d1]
             ELSE IF node.kind = "defaultdict"
             THEN [raised |-> FALSE,
                   d |-> SetItem(d1, current_path,
                           SetItem(node, MethodsKey,
                             SetItem(EmptyDict, sample.http_method, Obj(sample))))]
             ELSE [raised |-> TRUE, d |-> d1]
        ELSE LET r == PutCodeSample(node, further_path, sample)
             IN  [raised |-> r.raised, d |-> SetItem(d1, current_path, r.d)]

\* CodeSamplesTree.put: the key is f'{sample.lang.value}{sample.name}'
TreePath(sample) == <<sample.lang>> \o sample.name

TreePut(t, sample) == PutCodeSample(t, TreePath(sample), sample)

----------------------------------------------------------------------------
(* CodeSamplesTree._sort_samples, as the list it leaves in result_list *)

RECURSIVE AppendPresent(_, _, _)
AppendPresent(methods, order, result_list) ==
    IF order = <<>> THEN result_list
    ELSE AppendPresent(methods, Tail(order),
            IF HasKey(methods, Head(order))
            THEN Append(result_list, GetItem(methods, Head(order)).obj)
            ELSE result_list)

RECURSIVE SortSamples(_, _)
RECURSIVE SortChildren(_, _, _)

SortChildren(endpoints, further_paths, result_list) ==
    IF further_paths = <<>> THEN result_list
    ELSE SortChildren(endpoints, Tail(further_paths),
            SortSamples(GetItem(endpoints, Head(further_paths)), result_list))

\* a traversal that emits the node's DELETE before descending
SortSamples_DeleteFirst(endpoints, result_list) ==
    LET methods == DictGet(endpoints, MethodsKey, EmptyDict)
        own == AppendPresent(methods, <<post, get, put, delete>>, result_list)
        further_paths == SelectSeq(KeysOf(endpoints), LAMBDA name : name # MethodsKey)
    IN  SortChildren(endpoints, further_paths, own)

\* a traversal that emits the node's GET before its POST
SortSamples_GetFirst(endpoints, result_list) ==
    LET methods == DictGet(endpoints, MethodsKey, EmptyDict)
        own == AppendPresent(methods, <<get, post, put>>, result_list)
        further_paths == SelectSeq(KeysOf(endpoints), LAMBDA name : name # MethodsKey)
        below == SortChildren(endpoints, further_paths, own)
    IN  AppendPresent(methods, <<delete>>, below)

SortSamples(endpoints, result_list) ==
    LET methods == DictGet(endpoints, MethodsKey, EmptyDict)
        own == AppendPresent(methods, <<post, get, put>>, result_list)
        further_paths == SelectSeq(KeysOf(endpoints), LAMBDA name : name # MethodsKey)
        below == SortChildren(endpoints, further_paths, own)
    IN  AppendPresent(methods, <<delete>>, below)

ListSorted(t) == SortSamples(t, <<>>)

----------------------------------------------------------------------------
(* TestExecutionResultMap._put_test_result *)

RECURSIVE PutTestResult(_, _, _)
PutTestResult(current_dict, test_result, path) ==
    LET path_parts == Split(path)
        current_path == path_parts[1]
        further_path == Join(Tail(path_parts))
        d1 == IF ~Truthy(DictGet(current_dict, current_path, None))
              THEN SetItem(current_dict, current_path, NewDefaultDict)
              ELSE current_dict
        node == GetItem(d1, current_path)
        http_method == test_result.sample.http_method
    IN  IF further_path = <<>>
        THEN IF HasKey(node, MethodsKey)
             THEN LET ms == GetItem(node, MethodsKey)
                  IN  IF IsDict(ms)
                      THEN [raised |-> FALSE,
                            d |-> SetItem(d1, current_path,
                                    SetItem(node, MethodsKey,
                                      SetItem(ms, http_method, Obj(test_result))))]
                      ELSE [raised |-> TRUE, d |-> d1]
             ELSE IF node.kind = "defaultdict"
             THEN [raised |-> FALSE,
                   d |-> SetItem(d1, current_path,
                           SetItem(node, MethodsKey,
                             SetItem(EmptyDict, http_method, Obj(test_result))))]
             ELSE [raised |-> TRUE, d |-> d1]
        ELSE LET r == PutTestResult(node, test_result, further_path)
             IN  [raised |-> r.raised, d |-> SetItem(d1, current_path, r.d)]

\* TestExecutionResultMap.put: the key is test_result.sample.name
MapPut(m, test_result) == PutTestResult(m, test_result, test_result.sample.name)

----------------------------------------------------------------------------
(* TestExecutionResultMap._get_parent_test_result.  The value is the       *)
(* Optional[ApiTestResult] returned; calling .get on something that is no  *)
(* dict raises.                                                            *)

RECURSIVE GetParentTestResult(_, _, _, _)
GetParentTestResult(current_dict, sample, path, current_parent) ==
    LET path_parts == Split(path)
        current_path == path_parts[1]
        further_path == Join(Tail(path_parts))
    IN  IF ~IsDict(current_dict) \/ ~IsDict(DictGet(current_dict, MethodsKey, EmptyDict))
        THEN [raised |-> TRUE, value |-> None]
        ELSE LET current_methods == DictGet(current_dict, MethodsKey, EmptyDict)
                 parent == DictGet(current_methods, post, current_parent)
                 next_dict == DictGet(current_dict, current_path, None)
             IN  IF ~Truthy(next_dict) THEN [raised |-> FALSE, value |-> parent]
                 ELSE IF further_path = <<>> THEN [raised |-> FALSE, value |-> parent]
                 ELSE GetParentTestResult(next_dict, sample, further_path, parent)

\* TestExecutionResultMap.get_parent_result
GetParentResult(m, sample) == GetParentTestResult(m, sample, sample.name, None)

\* json_body values: None, the empty dict, a dict with content
NoBody == "None"
EmptyBody == "{}"
IdBody == "{id}"

\* a wrapper that hands the ancestor's json_body on as it is
GetParentBody_Raw(m, sample) ==
    LET r == GetParentResult(m, sample)
    IN  IF r.raised THEN [raised |-> TRUE, value |-> None]
        ELSE IF r.value # None
        THEN [raised |-> FALSE, value |-> r.value.obj.json_body]
        ELSE [raised |-> FALSE, value |-> EmptyBody]

\* TestExecutionResultMap.get_parent_body
GetParentBody(m, sample) ==
    LET r == GetParentResult(m, sample)
    IN  IF r.raised THEN [raised |-> TRUE, value |-> None]
        ELSE IF r.value # None
        THEN [raised |-> FALSE,
              value |-> IF r.value.obj.json_body \in {NoBody, EmptyBody}
                        THEN EmptyBody ELSE r.value.obj.json_body]
        ELSE [raised |-> FALSE, value |-> EmptyBody]

----------------------------------------------------------------------------
(* Inputs: the samples a documentation run can supply *)

\* a name (resource path) written as its token sequence
Path1(a) == <<Sep, a>>
Path2(a, b) == <<Sep, a, Sep, b>>
Path3(a, b, c) == <<Sep, a, Sep, b, Sep, c>>
Slash(p) == p \o <<Sep>>

SamplesOver(L, P, M) == [lang : L, name : P, http_method : M]

\* chains /a, /a/b, /a/b/c in two languages, and /a written with a trailing slash
OrderCorpus ==
    SamplesOver({"python", "js"},
                {Path1("a"), Path2("a", "b"), Path3("a", "b", "c"), Slash(Path1("a"))},
                {post, delete})

\* sibling subtrees b and c under /a, in two languages
SiblingCorpus ==
    SamplesOver({"python", "js"},
                {Path1("a"), Path2("a", "b"), Path2("a", "c"), Path3("a", "b", "d")},
                {get, delete})

\* the resource pair of the documented scenario, with every ordered method
ScenarioCorpus ==
    SamplesOver({"python"}, {Path1("items")}, {post, get, put, delete})
    \cup SamplesOver({"python"}, {Path2("items", "{id}")}, {get, delete})

\* a segment spelled like the payload key, below /a and with a child of its
\* own, and a method the traversal does not order
ReservedCorpus ==
    SamplesOver({"python", "js"},
                {Path1("a"), Path2("a", MethodsKey), Path3("a", MethodsKey, "b")},
                {post, get, patch})

\* /a and /a/b, each also written with a trailing slash
SlashCorpus ==
    SamplesOver({"python"},
                {Path1("a"), Slash(Path1("a")), Path2("a", "b"), Slash(Path2("a", "b"))},
                {post, get, delete})

\* results for /a, /a/b and /a written with a trailing slash; a POST result
\* comes with no body, an empty body or a body with content
MapCorpus ==
    LET names == {Path1("a"), Path2("a", "b"), Slash(Path1("a"))}
    IN  [lang : {"python"}, name : names, http_method : {post},
         json_body : {NoBody, EmptyBody, IdBody}]
        \cup [lang : {"python"}, name : names, http_method : {get}, json_body : {IdBody}]

\* a parent, its child, and the parent written with a trailing slash
RunCorpus ==
    SamplesOver({"python", "js"},
                {Path1("a"), Path2("a", "b"), Slash(Path1("a"))},
                {post, get, delete})

\* the samples of the run's corpus
Supplied ==
    CASE corpus = "order" -> OrderCorpus
      [] corpus = "siblings" -> SiblingCorpus
      [] corpus = "scenario" -> ScenarioCorpus
      [] corpus = "reserved" -> ReservedCorpus
      [] corpus = "slash" -> SlashCorpus
      [] corpus = "results" -> MapCorpus
      [] corpus = "run" -> RunCorpus

----------------------------------------------------------------------------
(* Operations on CodeSamplesTree *)

\* the CodeSample object number n made from a corpus entry
AsSample(s, n) == [lang |-> s.lang, name |-> s.name, http_method |-> s.http_method, id |-> n]

\* CodeSamplesTree.put(sample)
Put ==
    /\ pc = "idle"
    /\ budget > 0
    /\ \E s \in Supplied :
         LET sample == AsSample(s, Len(log) + 1)
             r == TreePut(tree, sample)
         IN  /\ tree' = r.d
             /\ raised' = r.raised
             /\ log' = Append(log, sample)
    /\ budget' = budget - 1
    /\ listed' = FALSE
    /\ sorted_samples' = <<>>
    /\ UNCHANGED <<map, rlog, lookup, corpus, pc, cursor>>

\* CodeSamplesTree.list_sorted_samples()
ListSortedSamples ==
    /\ pc = "idle"
    /\ ~listed
    /\ sorted_samples' = ListSorted(tree)
    /\ listed' = TRUE
    /\ raised' = FALSE
    /\ UNCHANGED <<tree, map, log, rlog, lookup, corpus, budget, pc, cursor>>

InitCommon ==
    /\ tree = EmptyDict
    /\ map = EmptyDict
    /\ sorted_samples = <<>>
    /\ listed = FALSE
    /\ log = <<>>
    /\ rlog = <<>>
    /\ lookup = None
    /\ raised = FALSE
    /\ pc = "idle"
    /\ cursor = 0

NextTree == Put \/ ListSortedSamples

----------------------------------------------------------------------------
(* Operations on TestExecutionResultMap *)

\* TestExecutionResultMap.put(test_result)
PutResult ==
    /\ pc = "idle"
    /\ budget > 0
    /\ \E s \in Supplied :
         LET test_result == [sample |-> AsSample(s, 0), json_body |-> s.json_body,
                             id |-> Len(rlog) + 1]
             r == MapPut(map, test_result)
         IN  /\ map' = r.d
             /\ raised' = r.raised
             /\ rlog' = Append(rlog, test_result)
    /\ budget' = budget - 1
    /\ lookup' = None
    /\ UNCHANGED <<tree, sorted_samples, listed, log, corpus, pc, cursor>>

\* TestExecutionResultMap.get_parent_result(sample)
CallGetParentResult ==
    /\ pc = "idle"
    /\ lookup = None
    /\ \E s \in Supplied :
         LET sample == AsSample(s, 0)
             r == GetParentResult(map, sample)
         IN  /\ lookup' = [kind |-> "get_parent_result", sample |-> sample, value |-> r.value]
             /\ raised' = r.raised
    /\ UNCHANGED <<tree, map, sorted_samples, listed, log, rlog, corpus, budget, pc, cursor>>

\* TestExecutionResultMap.get_parent_body(sample)
CallGetParentBody ==
    /\ pc = "idle"
    /\ lookup = None
    /\ \E s \in Supplied :
         LET sample == AsSample(s, 0)
             r == GetParentBody(map, sample)
         IN  /\ lookup' = [kind |-> "get_parent_body", sample |-> sample, value |-> r.value]
             /\ raised' = r.raised
    /\ UNCHANGED <<tree, map, sorted_samples, listed, log, rlog, corpus, budget, pc, cursor>>

NextMap == PutResult \/ CallGetParentResult \/ CallGetParentBody

InitMap == InitCommon /\ corpus = "results" /\ budget = MaxPuts
SpecMap == InitMap /\ [][NextMap]_vars

----------------------------------------------------------------------------
(* The orchestrator's loop over the sorted list: look up the parent        *)
(* result, execute the sample, record its result.                          *)

\* the loop starts on the list just taken
RunStart ==
    /\ pc = "idle"
    /\ listed
    /\ pc' = IF sorted_samples = <<>> THEN "done" ELSE "lookup"
    /\ cursor' = 1
    /\ UNCHANGED <<tree, map, sorted_samples, listed, log, rlog, lookup, raised,
                   corpus, budget>>

\* get_parent_result for the sample at the cursor, before it is executed
RunLookup ==
    /\ pc = "lookup"
    /\ LET sample == sorted_samples[cursor]
           r == GetParentResult(map, sample)
       IN  /\ lookup' = [kind |-> "get_parent_result", sample |-> sample, value |-> r.value]
           /\ raised' = r.raised
    /\ pc' = "execute"
    /\ UNCHANGED <<tree, map, sorted_samples, listed, log, rlog, corpus, budget, cursor>>

\* the sample is executed and its result is put into the map
RunRecord ==
    /\ pc = "execute"
    /\ LET test_result == [sample |-> sorted_samples[cursor], json_body |-> IdBody,
                           id |-> Len(rlog) + 1]
           r == MapPut(map, test_result)
       IN  /\ map' = r.d
           /\ raised' = r.raised
           /\ rlog' = Append(rlog, test_result)
    /\ cursor' = cursor + 1
    /\ pc' = IF cursor = Len(sorted_samples) THEN "done" ELSE "lookup"
    /\ UNCHANGED <<tree, sorted_samples, listed, log, lookup, corpus, budget>>

NextRun == Put \/ ListSortedSamples \/ RunStart \/ RunLookup \/ RunRecord

InitRun == InitCommon /\ corpus = "run" /\ budget = MaxPuts
SpecRun == InitRun /\ [][NextRun]_vars

InitOrder == InitCommon /\ corpus = "order" /\ budget = MaxPuts
SpecOrder == InitOrder /\ [][NextTree]_vars

InitSiblings == InitCommon /\ corpus = "siblings" /\ budget = MaxPuts
SpecSiblings == InitSiblings /\ [][NextTree]_vars

InitScenario == InitCommon /\ corpus = "scenario" /\ budget = ScenarioPuts
SpecScenario == InitScenario /\ [][NextTree]_vars

InitReserved == InitCommon /\ corpus = "reserved" /\ budget = MaxPuts
SpecReserved == InitReserved /\ [][NextTree]_vars

InitSlash == InitCommon /\ corpus = "slash" /\ budget = MaxPuts
SpecSlash == InitSlash /\ [][NextTree]_vars

----------------------------------------------------------------------------
(* Vocabulary of the properties *)

Segments(name) == Split(name)

StrictPrefix(p, q) == Len(p) < Len(q) /\ SubSeq(q, 1, Len(p)) = p

IsPrefix(p, q) == Len(p) <= Len(q) /\ SubSeq(q, 1, Len(p)) = p

KeyOf(s) == <<s.lang, s.name, s.http_method>>

Ordered == {post, get, put, delete}

Positions == 1..Len(sorted_samples)

\* the trie nodes (key paths from the root through segment keys) and the
\* objects each one holds in its payload map
RECURSIVE Stored(_, _)
Stored(endpoints, at) ==
    LET methods == DictGet(endpoints, MethodsKey, EmptyDict)
        own == {[node |-> at, method |-> methods.items[i].k,
                 sample |-> methods.items[i].v.obj] :
                    i \in {j \in 1..Len(methods.items) : methods.items[j].v.kind = "obj"}}
        below == {i \in 1..Len(endpoints.items) :
                    endpoints.items[i].k # MethodsKey /\ IsDict(endpoints.items[i].v)}
    IN  own \cup UNION {Stored(endpoints.items[i].v, Append(at, endpoints.items[i].k)) :
                          i \in below}

\* the trie node that holds sample x
NodeOf(x) == (CHOOSE r \in Stored(tree, <<>>) : r.sample = x).node

\* the last put of each (language, path, method) key
Latest == {log[i] : i \in {j \in 1..Len(log) :
                \A k \in (j + 1)..Len(log) : KeyOf(log[k]) # KeyOf(log[j])}}

----------------------------------------------------------------------------
----------------------------------------------------------------------------
(* C2: the returned list holds every object of every trie node once; a     *)
(* node's own samples stand in the order POST, GET, PUT, DELETE; its POST, *)
(* GET and PUT stand before, and its DELETE after, every sample of every   *)
(* descendant node.  Inserting items:POST, items:GET, items/{id}:GET,      *)
(* items/{id}:DELETE, items:DELETE in any order returns exactly that list. *)

Rank(m) == CASE m = post -> 1 [] m = get -> 2 [] m = put -> 3 [] m = delete -> 4
             [] OTHER -> 0

ScenarioOrder ==
    << <<"python", Path1("items"), post>>,
       <<"python", Path1("items"), get>>,
       <<"python", Path2("items", "{id}"), get>>,
       <<"python", Path2("items", "{id}"), delete>>,
       <<"python", Path1("items"), delete>> >>

C2_TraversalOrder ==
    listed =>
      LET stored == Stored(tree, <<>>)
          node(i) == (CHOOSE r \in stored : r.sample = sorted_samples[i]).node
      IN  /\ {sorted_samples[i] : i \in Positions}
               = {r.sample : r \in {e \in stored : e.method \in Ordered}}
          /\ \A i \in Positions, j \in Positions :
               LET x == sorted_samples[i]
                   y == sorted_samples[j]
               IN  /\ (i # j) => x # y
                   /\ (node(i) = node(j) /\ Rank(x.http_method) < Rank(y.http_method))
                        => i < j
                   /\ StrictPrefix(node(i), node(j))
                        => IF x.http_method = delete THEN j < i ELSE i < j
          /\ {KeyOf(log[i]) : i \in 1..Len(log)} = {ScenarioOrder[i] : i \in 1..5}
               => [i \in Positions |-> KeyOf(sorted_samples[i])] = ScenarioOrder

\* the scenario's five samples, inserted with items:DELETE first and
\* items:POST last
C2_Witness ==
    /\ listed
    /\ Len(log) = 5
    /\ {KeyOf(log[i]) : i \in 1..Len(log)} = {ScenarioOrder[i] : i \in 1..5}
    /\ KeyOf(log[1]) = ScenarioOrder[5]
    /\ KeyOf(log[5]) = ScenarioOrder[1]
    /\ Len(sorted_samples) = 5

----------------------------------------------------------------------------
(* C10: in the returned list the samples of one subtree stand together     *)
(* (nothing of a sibling subtree between two of them), and sibling         *)
(* subtrees stand in the order in which their segments were first inserted *)
(* under the common node, whatever was put into them later.                *)

\* the trees after 0, 1, ... puts, replayed from the log
RECURSIVE Replay(_, _)
Replay(k, acc) ==
    IF k > Len(log) THEN acc
    ELSE Replay(k + 1, Append(acc, TreePut(acc[Len(acc)], log[k]).d))

History == Replay(1, <<EmptyDict>>)

\* whether the trie t has the node at key path `at`
RECURSIVE HasNode(_, _)
HasNode(t, at) ==
    \/ at = <<>>
    \/ /\ HasKey(t, Head(at))
       /\ IsDict(GetItem(t, Head(at)))
       /\ HasNode(GetItem(t, Head(at)), Tail(at))

\* the number of the put that created the node at key path `at`
FirstInserted(trees, at) ==
    CHOOSE k \in 1..Len(log) : HasNode(trees[k + 1], at) /\ ~HasNode(trees[k], at)

Take(p, m) == SubSeq(p, 1, m)

C10_SiblingBlocks ==
    listed =>
      LET trees == History
          stored == Stored(tree, <<>>)
          node(i) == (CHOOSE r \in stored : r.sample = sorted_samples[i]).node
      IN  \A i \in Positions, j \in Positions :
            LET nx == node(i)
                ny == node(j)
            IN  \A m \in 1..Len(nx) :
                  \* sorted_samples[i] lies in the subtree rooted at Take(nx, m)
                  /\ (i < j /\ Len(ny) >= m /\ Take(ny, m) = Take(nx, m)) =>
                        \A h \in i..j : IsPrefix(Take(nx, m), node(h))
                  /\ (Len(ny) >= m /\ Take(ny, m - 1) = Take(nx, m - 1) /\ ny[m] # nx[m]) =>
                        (i < j <=> FirstInserted(trees, Take(nx, m))
                                     < FirstInserted(trees, Take(ny, m)))

\* a sample put last stands before a sample put earlier into a sibling subtree
C10_Witness ==
    /\ listed
    /\ \E i \in Positions, j \in Positions :
         LET x == sorted_samples[i]
             y == sorted_samples[j]
         IN  /\ i < j
             /\ x.id = 3 /\ y.id = 2
             /\ x.lang = y.lang
             /\ ~IsPrefix(NodeOf(x), NodeOf(y))
             /\ ~IsPrefix(NodeOf(y), NodeOf(x))

----------------------------------------------------------------------------
(* C5: the returned list holds exactly the last put of every (language,    *)
(* path, method) key whose method is POST, GET, PUT or DELETE, each once,  *)
(* whatever the segments of the path are; nothing with another method.     *)
C5_ReturnsEveryStoredSample ==
    listed =>
      /\ {sorted_samples[i] : i \in Positions}
           = {x \in Latest : x.http_method \in Ordered}
      /\ \A i \in Positions, j \in Positions :
           (i # j) => sorted_samples[i] # sorted_samples[j]

----------------------------------------------------------------------------
(* C6: once a (language, path, method) key with an ordered method was put  *)
(* twice, the returned list holds exactly one sample with that key, the    *)
(* one put last.                                                           *)
C6_SecondReplacesFirst ==
    listed =>
      \A a \in 1..Len(log), b \in 1..Len(log) :
        (a < b /\ KeyOf(log[a]) = KeyOf(log[b]) /\ log[a].http_method \in Ordered) =>
          LET same == {i \in Positions : KeyOf(sorted_samples[i]) = KeyOf(log[a])}
          IN  /\ Cardinality(same) = 1
              /\ \A i \in same : sorted_samples[i] \in Latest

----------------------------------------------------------------------------
(* C7: no operation of either structure raises, whatever the path.         *)
C7_NoOperationRaises == ~raised

----------------------------------------------------------------------------
(* C9: a path and the same path with a trailing slash are different keys:  *)
(* samples of one language and method put at both are both returned.       *)
C9_TrailingSlashIsAnotherKey ==
    listed =>
      \A x \in Latest, y \in Latest :
        (x.lang = y.lang /\ x.http_method = y.http_method /\ x.http_method \in Ordered
           /\ y.name = Slash(x.name)) =>
          /\ \E i \in Positions : sorted_samples[i] = x
          /\ \E i \in Positions : sorted_samples[i] = y

----------------------------------------------------------------------------
(* C3: get_parent_result(sample) returns the POST result recorded last at  *)
(* the longest strict segment-prefix of the sample's path that has one,    *)
(* and None when no strict prefix has one.                                 *)

\* the recorded POST results at strict segment-prefixes of name
AncestorPosts(name) ==
    {i \in 1..Len(rlog) :
        /\ rlog[i].sample.http_method = post
        /\ StrictPrefix(Segments(rlog[i].sample.name), Segments(name))}

\* the one to return: longest prefix first, then the latest record
Nearest(name) ==
    CHOOSE i \in AncestorPosts(name) :
      \A j \in AncestorPosts(name) :
        LET li == Len(Segments(rlog[i].sample.name))
            lj == Len(Segments(rlog[j].sample.name))
        IN  lj < li \/ (lj = li /\ j <= i)

C3_NearestAncestorPost ==
    (lookup # None /\ lookup.kind = "get_parent_result") =>
      /\ ~raised
      /\ IF AncestorPosts(lookup.sample.name) = {}
         THEN lookup.value = None
         ELSE lookup.value = Obj(rlog[Nearest(lookup.sample.name)])

----------------------------------------------------------------------------
(* C8: get_parent_body(sample) returns the json_body of                    *)
(* get_parent_result(sample) when that result exists and has a body, and   *)
(* the empty body otherwise; it never returns None and never raises.       *)
C8_ParentBodyOrEmpty ==
    (lookup # None /\ lookup.kind = "get_parent_body") =>
      LET parent == GetParentResult(map, lookup.sample).value
      IN  /\ ~raised
          /\ lookup.value \in {EmptyBody, IdBody}
          /\ lookup.value =
               IF parent # None /\ parent.obj.json_body = IdBody
               THEN parent.obj.json_body ELSE EmptyBody

\* the ancestor's POST result was recorded without a body
C8_Witness ==
    /\ lookup # None
    /\ lookup.kind = "get_parent_body"
    /\ GetParentResult(map, lookup.sample).value # None
    /\ GetParentResult(map, lookup.sample).value.obj.json_body = NoBody
    /\ lookup.value = EmptyBody

----------------------------------------------------------------------------
(* C4: in the orchestrator's loop, when get_parent_result is called for a  *)
(* sample, every POST of its language inserted at a strict segment-prefix  *)
(* of its path has its result recorded, the DELETE at that prefix has not  *)
(* run yet, and the lookup does not return None.                           *)
C4_ParentRecordedBeforeChild ==
    (pc = "execute") =>
      LET s == lookup.sample
      IN  \A a \in 1..Len(log) :
            (log[a].lang = s.lang /\ log[a].http_method = post
               /\ StrictPrefix(Segments(log[a].name), Segments(s.name))) =>
              /\ \E i \in 1..Len(rlog) :
                   /\ rlog[i].sample.lang = s.lang
                   /\ rlog[i].sample.name = log[a].name
                   /\ rlog[i].sample.http_method = post
              /\ ~\E i \in 1..Len(rlog) :
                   /\ rlog[i].sample.lang = s.lang
                   /\ rlog[i].sample.name = log[a].name
                   /\ rlog[i].sample.http_method = delete
              /\ lookup.value # None

====
